---- MODULE Spec2Model ----
(***************************************************************************)
(* The MtA (multiplicative-to-additive) share conversion of gg_2018/mta.rs *)
(* as a state machine: one exchange A -> MessageA -> B -> MessageB -> A.   *)
(* The Paillier cryptosystem is computed with textbook arithmetic over a   *)
(* small modulus; the curve group of prime order q is represented by the   *)
(* exponents of its generator (a point g^x is the number x mod q).         *)
(***************************************************************************)
EXTENDS Integers, Sequences, FiniteSets, TLC

(***************************************************************************)
(* Scaled-down parameters.                                                 *)
(***************************************************************************)
\* the two primes of alice's Paillier key (DecryptionKey.p, DecryptionKey.q)
PaillierP == 5
PaillierQ == 7
\* the order of the curve's scalar field (secp256k1's q, scaled down)
q == 3
\* how many range-proof statements an exchange carries at most
MaxStatements == 2
\* BigInt::sample_below(n) is explored on the SampleSpan lowest and the
\* SampleSpan highest values of [0, n)
SampleSpan == 3

alice_ek == [n |-> PaillierP * PaillierQ,
             nn |-> (PaillierP * PaillierQ) * (PaillierP * PaillierQ)]
alice_dk == [p |-> PaillierP, q |-> PaillierQ]

Scalars == 0 .. (q - 1)

(***************************************************************************)
(* Big-integer helpers.                                                    *)
(***************************************************************************)
RECURSIVE ModPow(_, _, _)
ModPow(base, e, m) ==
  IF e = 0 THEN 1 % m
  ELSE LET h == ModPow(base, e \div 2, m)
       IN  IF e % 2 = 0 THEN (h * h) % m ELSE (((h * h) % m) * base) % m

RECURSIVE Gcd(_, _)
Gcd(x, y) == IF y = 0 THEN x ELSE Gcd(y, x % y)

Lcm(x, y) == (x * y) \div Gcd(x, y)

ModInv(x, m) == CHOOSE y \in 0 .. (m - 1) : (x * y) % m = 1 % m

SampleBelow(n) == {x \in 0 .. (n - 1) : x < SampleSpan \/ x >= n - SampleSpan}

(***************************************************************************)
(* Paillier: encrypt_with_chosen_randomness, decrypt, mul, add.            *)
(***************************************************************************)
Encrypt(ek, m, r) == (((1 + m * ek.n) % ek.nn) * ModPow(r, ek.n, ek.nn)) % ek.nn

\* BigInt division truncates toward zero
TruncDiv(x, y) == IF x >= 0 THEN x \div y ELSE 0 - ((0 - x) \div y)

PaillierL(u, n) == TruncDiv(u - 1, n)

Decrypt(dk, c) ==
  LET n      == dk.p * dk.q
      lambda == Lcm(dk.p - 1, dk.q - 1)
      mu     == ModInv(lambda % n, n)
  IN  (PaillierL(ModPow(c, lambda, n * n), n) * mu) % n

PaillierMul(ek, c, m) == ModPow(c, m, ek.nn)

PaillierAdd(ek, c1, c2) == (c1 * c2) % ek.nn

(***************************************************************************)
(* Curve: scalars are 0..q-1, the point g^x is x.                          *)
(***************************************************************************)
ScalarFrom(n) == n % q

ToBigInt(fe) == fe

ScalarSub(x, y) == (x + q - y) % q

Generator == 1

PointMul(pt, fe) == (pt * fe) % q

PointAdd(p1, p2) == (p1 + p2) % q

(***************************************************************************)
(* Knowledge-of-exponent proofs: a proof carries its commitment pk; one    *)
(* made by prove() verifies, a forged one (valid = FALSE) does not.        *)
(***************************************************************************)
DLogProve(sk) == [pk |-> PointMul(Generator, sk), valid |-> TRUE]

DLogVerify(proof) == proof.valid

(***************************************************************************)
(* Range proofs: a proof binds a ciphertext, the plaintext, the randomness *)
(* and a statement; it verifies against (c, ek, statement) exactly when it *)
(* was made for them from an opening of c with a plaintext below q^3.      *)
(***************************************************************************)
AliceProofGenerate(a, c, ek, dlog_statement, r) ==
  [a |-> a, c |-> c, n |-> ek.n, st |-> dlog_statement, r |-> r]

AliceProofVerify(proof, c, ek, dlog_statement) ==
  /\ proof.c = c
  /\ proof.n = ek.n
  /\ proof.st = dlog_statement
  /\ proof.a < q * q * q
  /\ Encrypt(ek, proof.a, proof.r) = c

(***************************************************************************)
(* Counts of the collaborators' primitives one call invokes.               *)
(***************************************************************************)
ZeroOps == [sample |-> 0, encrypt |-> 0, range_prove |-> 0, range_verify |-> 0,
            mul |-> 0, add |-> 0, prove |-> 0, decrypt |-> 0, dlog_verify |-> 0]

InvalidKey == [ok |-> FALSE, err |-> "InvalidKey"]

(***************************************************************************)
(* MessageA                                                                *)
(***************************************************************************)
\* a faulty variant: the proofs are generated against the statements in
\* reverse order
MessageA_reversed_proofs(a, ek, randomness, dlog_statements) ==
  LET c_a == Encrypt(ek, ToBigInt(a), randomness)
      n   == Len(dlog_statements)
  IN  [c |-> c_a,
       range_proofs |->
         [i \in 1 .. n |->
            AliceProofGenerate(ToBigInt(a), c_a, ek, dlog_statements[n + 1 - i],
                               randomness)]]

MessageA_a_with_predefined_randomness(a, ek, randomness, dlog_statements) ==
  LET c_a == Encrypt(ek, ToBigInt(a), randomness)
  IN  [c |-> c_a,
       range_proofs |->
         [i \in 1 .. Len(dlog_statements) |->
            AliceProofGenerate(ToBigInt(a), c_a, ek, dlog_statements[i], randomness)]]

MessageA_ops(dlog_statements) ==
  [ZeroOps EXCEPT !.encrypt = 1, !.range_prove = Len(dlog_statements)]

(***************************************************************************)
(* MessageB                                                                *)
(***************************************************************************)
Min(x, y) == IF x <= y THEN x ELSE y

\* a faulty variant: only a surplus of proofs is refused
LengthsMatch_at_most(m_a, dlog_statements) ==
  Len(m_a.range_proofs) <= Len(dlog_statements)

LengthsMatch(m_a, dlog_statements) ==
  Len(m_a.range_proofs) = Len(dlog_statements)

\* .iter().zip(..).map(verify).all(|x| x): the pairs are verified in order
\* and the scan stops at the first proof that fails; n counts the calls
RECURSIVE VerifyScan(_, _, _, _)
VerifyScan(m_a, ek, dlog_statements, i) ==
  IF i > Min(Len(m_a.range_proofs), Len(dlog_statements))
  THEN [ok |-> TRUE, n |-> i - 1]
  ELSE IF AliceProofVerify(m_a.range_proofs[i], m_a.c, ek, dlog_statements[i])
       THEN VerifyScan(m_a, ek, dlog_statements, i + 1)
       ELSE [ok |-> FALSE, n |-> i]

RangeProofsVerify(m_a, ek, dlog_statements) ==
  VerifyScan(m_a, ek, dlog_statements, 1)

\* a faulty variant: the field-reduced blinding value is encrypted
BetaTagCiphertext_reduced(ek, beta_tag, randomness) ==
  Encrypt(ek, ScalarFrom(beta_tag), randomness)

BetaTagCiphertext(ek, beta_tag, randomness) ==
  Encrypt(ek, beta_tag, randomness)

\* a faulty variant: Message A's ciphertext is not multiplied by b
CombineCiphertext_without_mul(ek, c_a, b, c_beta_tag) ==
  PaillierAdd(ek, c_a, c_beta_tag)

CombineCiphertext(ek, c_a, b, c_beta_tag) ==
  LET b_bn  == ToBigInt(b)
      b_c_a == PaillierMul(ek, c_a, b_bn)
  IN  PaillierAdd(ek, b_c_a, c_beta_tag)

\* a faulty variant: the share is not negated
BetaOf_not_negated(beta_tag_fe) == beta_tag_fe

BetaOf(beta_tag_fe) == ScalarSub(0, beta_tag_fe)

\* the result and the primitives invoked on the way to it
MessageB_b_with_predefined_randomness(b, ek, m_a, randomness, beta_tag, dlog_statements) ==
  IF ~LengthsMatch(m_a, dlog_statements)
  THEN [res |-> InvalidKey, ops |-> ZeroOps]
  ELSE
    LET scan == RangeProofsVerify(m_a, ek, dlog_statements)
    IN  IF ~scan.ok
        THEN [res |-> InvalidKey, ops |-> [ZeroOps EXCEPT !.range_verify = scan.n]]
        ELSE
          LET beta_tag_fe == ScalarFrom(beta_tag)
              c_beta_tag  == BetaTagCiphertext(ek, beta_tag, randomness)
              c_b         == CombineCiphertext(ek, m_a.c, b, c_beta_tag)
              beta        == BetaOf(beta_tag_fe)
              dlog_proof_b        == DLogProve(b)
              dlog_proof_beta_tag == DLogProve(beta_tag_fe)
          IN  [res |-> [ok |-> TRUE,
                        m_b |-> [c |-> c_b,
                                 b_proof |-> dlog_proof_b,
                                 beta_tag_proof |-> dlog_proof_beta_tag],
                        beta |-> beta],
               ops |-> [ZeroOps EXCEPT !.range_verify = scan.n, !.encrypt = 1,
                                       !.mul = 1, !.add = 1, !.prove = 2]]

(***************************************************************************)
(* Share extraction                                                        *)
(***************************************************************************)
BaBtag(m_b, a) == PointAdd(PointMul(m_b.b_proof.pk, a), m_b.beta_tag_proof.pk)

\* faulty variants: one of the three checks is left out
AlphaAccepted_skips_beta_tag_proof(m_b, a, g_alpha) ==
  /\ DLogVerify(m_b.b_proof)
  /\ BaBtag(m_b, a) = g_alpha

AlphaAccepted_skips_equation(m_b, a, g_alpha) ==
  /\ DLogVerify(m_b.b_proof)
  /\ DLogVerify(m_b.beta_tag_proof)

AlphaAccepted(m_b, a, g_alpha) ==
  /\ DLogVerify(m_b.b_proof)
  /\ DLogVerify(m_b.beta_tag_proof)
  /\ BaBtag(m_b, a) = g_alpha

verify_proofs_get_alpha(m_b, dk, a) ==
  LET alice_share == Decrypt(dk, m_b.c)
      alpha       == ScalarFrom(alice_share)
      g_alpha     == PointMul(Generator, alpha)
  IN  IF AlphaAccepted(m_b, a, g_alpha)
      THEN [ok |-> TRUE, alpha |-> alpha, share |-> alice_share]
      ELSE InvalidKey

\* PartyPrivate::decrypt decrypts with the decryption key the party holds
PartyPrivateDecrypt(private, c) == Decrypt(private.dk, c)

\* a faulty variant: b_proof is not verified
AlphaAcceptedGG18_skips_b_proof(m_b, a, g_alpha) ==
  /\ DLogVerify(m_b.beta_tag_proof)
  /\ BaBtag(m_b, a) = g_alpha

AlphaAcceptedGG18(m_b, a, g_alpha) ==
  /\ DLogVerify(m_b.b_proof)
  /\ DLogVerify(m_b.beta_tag_proof)
  /\ BaBtag(m_b, a) = g_alpha

verify_proofs_get_alpha_gg18(m_b, private, a) ==
  LET alice_share == PartyPrivateDecrypt(private, m_b.c)
      alpha       == ScalarFrom(alice_share)
      g_alpha     == PointMul(Generator, alpha)
  IN  IF AlphaAcceptedGG18(m_b, a, g_alpha)
      THEN [ok |-> TRUE, alpha |-> alpha]
      ELSE InvalidKey

verify_b_against_public(public_gb, mta_gb) == public_gb = mta_gb

\* the two verifications are joined by &&: the second runs only after the first
Extract_ops(m_b) ==
  [ZeroOps EXCEPT !.decrypt = 1,
                  !.dlog_verify = IF DLogVerify(m_b.b_proof) THEN 2 ELSE 1]

(***************************************************************************)
(* The exchange.                                                           *)
(***************************************************************************)
VARIABLES
  pc,          \* "start", "a_sent", "b_sent", "b_failed", "alpha", "done"
  a,           \* A's secret scalar
  stmts,       \* the statements A proves against
  r_a,         \* the randomness of Message A (returned by MessageA::a)
  m_a,         \* Message A as built
  m_a_rx,      \* Message A as handed to MessageB::b
  stmtsB,      \* the statements handed to MessageB::b
  b,           \* B's secret scalar
  beta_tag,    \* the blinding integer of a successful Message-B construction
  r_b,         \* its encryption randomness
  resB,        \* the Result of the Message-B construction
  m_b_rx,      \* Message B as handed to the share extraction
  a_in,        \* the scalar handed to the share extraction
  resAlpha,    \* the Result of verify_proofs_get_alpha
  resAlpha18,  \* the Result of verify_proofs_get_alpha_gg18
  ops          \* the primitives the most recent call invoked

vars == <<pc, a, stmts, r_a, m_a, m_a_rx, stmtsB, b, beta_tag, r_b, resB,
          m_b_rx, a_in, resAlpha, resAlpha18, ops>>

NotCalled == [ok |-> FALSE, err |-> "NotCalled"]

NoMessageA == [c |-> 0, range_proofs |-> <<>>]

NoMessageB == [c |-> 0,
               b_proof |-> [pk |-> 0, valid |-> FALSE],
               beta_tag_proof |-> [pk |-> 0, valid |-> FALSE]]

\* the statements of the first k counterparties, statement i being party i's
Statements(k) == [i \in 1 .. k |-> i]

Reverse(s) == [i \in 1 .. Len(s) |-> s[Len(s) + 1 - i]]

DropLast(s) == SubSeq(s, 1, Len(s) - 1)

\* what may reach B in place of Message A m: m itself, or m with a proof
\* dropped, added, forged or reordered, or with another ciphertext
ReceivedA(m) ==
  LET ps == m.range_proofs
      forge(p) == [p EXCEPT !.r = (p.r + 1) % p.n]
  IN  {m,
       [m EXCEPT !.range_proofs = Reverse(ps)],
       [m EXCEPT !.range_proofs =
          Append(ps, AliceProofGenerate(0, m.c, alice_ek, Len(ps) + 1, 1))],
       [m EXCEPT !.c = PaillierAdd(alice_ek, m.c, Encrypt(alice_ek, 1, 1))]}
      \cup (IF ps = <<>> THEN {}
            ELSE {[m EXCEPT !.range_proofs = DropLast(ps)],
                  [m EXCEPT !.range_proofs[1] = forge(ps[1])],
                  [m EXCEPT !.range_proofs[Len(ps)] = forge(ps[Len(ps)])]})

\* the statements B may supply for an exchange over statements s
SuppliedStatements(s) ==
  {s, Reverse(s), Append(s, Len(s) + 1)}
  \cup (IF s = <<>> THEN {} ELSE {DropLast(s)})

\* what may reach A in place of Message B m: m itself, or m with a proof
\* replaced by a proof for another scalar or by a forged one, or with a
\* ciphertext of another plaintext
ReceivedB(m) ==
  {m,
   [m EXCEPT !.b_proof.valid = FALSE],
   [m EXCEPT !.beta_tag_proof.valid = FALSE],
   [m EXCEPT !.beta_tag_proof = DLogProve(ScalarFrom(m.beta_tag_proof.pk + 1))],
   [m EXCEPT !.c = PaillierAdd(alice_ek, m.c, Encrypt(alice_ek, 1, 1))]}
  \cup {[m EXCEPT !.b_proof = DLogProve(x)] : x \in Scalars}

Init ==
  /\ pc = "start"
  /\ a = 0
  /\ stmts = <<>>
  /\ r_a = 0
  /\ m_a = NoMessageA
  /\ m_a_rx = NoMessageA
  /\ stmtsB = <<>>
  /\ b = 0
  /\ beta_tag = 0
  /\ r_b = 0
  /\ resB = NotCalled
  /\ m_b_rx = NoMessageB
  /\ a_in = 0
  /\ resAlpha = NotCalled
  /\ resAlpha18 = NotCalled
  /\ ops = ZeroOps

\* the body shared by the two Message-A entry points
BuildA(x, randomness, dlog_statements, sampled) ==
  LET out == MessageA_a_with_predefined_randomness(x, alice_ek, randomness,
                                                   dlog_statements)
  IN  /\ a' = x
      /\ stmts' = dlog_statements
      /\ r_a' = randomness
      /\ m_a' = out
      /\ ops' = [MessageA_ops(dlog_statements) EXCEPT !.sample = sampled]
      /\ pc' = "a_sent"
      /\ UNCHANGED <<m_a_rx, stmtsB, b, beta_tag, r_b, resB, m_b_rx, a_in,
                     resAlpha, resAlpha18>>

\* MessageA::a samples the randomness
MessageA_a ==
  /\ pc = "start"
  /\ \E x \in Scalars, k \in 0 .. MaxStatements :
       \E randomness \in SampleBelow(alice_ek.n) :
         BuildA(x, randomness, Statements(k), 1)

\* MessageA::a_with_predefined_randomness is given it
MessageA_a_predefined ==
  /\ pc = "start"
  /\ \E x \in Scalars, k \in 0 .. MaxStatements :
       \E randomness \in SampleBelow(alice_ek.n) :
         BuildA(x, randomness, Statements(k), 0)

\* the body shared by the two Message-B entry points; sampled counts the
\* sample_below calls made before b_with_predefined_randomness is entered
BuildB(y, rx, randomness, bt, dlog_statements, sampled) ==
  LET out == MessageB_b_with_predefined_randomness(y, alice_ek, rx, randomness,
                                                   bt, dlog_statements)
  IN  /\ m_a_rx' = rx
      /\ stmtsB' = dlog_statements
      /\ resB' = out.res
      /\ ops' = [out.ops EXCEPT !.sample = sampled]
      /\ IF out.res.ok
         THEN /\ b' = y
              /\ beta_tag' = bt
              /\ r_b' = randomness
              /\ pc' = "b_sent"
         ELSE /\ UNCHANGED <<b, beta_tag, r_b>>
              /\ pc' = "b_failed"
      /\ UNCHANGED <<a, stmts, r_a, m_a, m_b_rx, a_in, resAlpha, resAlpha18>>

\* MessageB::b samples beta_tag and the randomness, then calls the body
MessageB_b ==
  /\ pc = "a_sent"
  /\ \E y \in Scalars, rx \in ReceivedA(m_a), st \in SuppliedStatements(stmts) :
       \E bt \in SampleBelow(alice_ek.n),
          randomness \in SampleBelow(alice_ek.n) :
         BuildB(y, rx, randomness, bt, st, 2)

MessageB_b_predefined ==
  /\ pc = "a_sent"
  /\ \E y \in Scalars, rx \in ReceivedA(m_a), st \in SuppliedStatements(stmts) :
       \E bt \in SampleBelow(alice_ek.n),
          randomness \in SampleBelow(alice_ek.n) :
         BuildB(y, rx, randomness, bt, st, 0)

VerifyProofsGetAlpha ==
  /\ pc = "b_sent"
  /\ \E rx \in ReceivedB(resB.m_b), x \in Scalars :
       /\ m_b_rx' = rx
       /\ a_in' = x
       /\ resAlpha' = verify_proofs_get_alpha(rx, alice_dk, x)
       /\ ops' = Extract_ops(rx)
  /\ pc' = "alpha"
  /\ UNCHANGED <<a, stmts, r_a, m_a, m_a_rx, stmtsB, b, beta_tag, r_b, resB,
                 resAlpha18>>

\* the same Message B and scalar, through the PartyPrivate entry point
VerifyProofsGetAlphaGG18 ==
  /\ pc = "alpha"
  /\ resAlpha18' = verify_proofs_get_alpha_gg18(m_b_rx, [dk |-> alice_dk], a_in)
  /\ ops' = Extract_ops(m_b_rx)
  /\ pc' = "done"
  /\ UNCHANGED <<a, stmts, r_a, m_a, m_a_rx, stmtsB, b, beta_tag, r_b, resB,
                 m_b_rx, a_in, resAlpha>>

Next ==
  \/ MessageA_a
  \/ MessageA_a_predefined
  \/ MessageB_b
  \/ MessageB_b_predefined
  \/ VerifyProofsGetAlpha
  \/ VerifyProofsGetAlphaGG18

Spec == Init /\ [][Next]_vars

(***************************************************************************)
(* Properties.                                                             *)
(***************************************************************************)
\* B was handed Message A as built and the statements A used
HonestAB == m_a_rx = m_a /\ stmtsB = stmts

\* A was handed Message B as built and extracts with its own scalar
HonestBA == m_b_rx = resB.m_b /\ a_in = a

\* r is invertible modulo the encryption modulus
Unit(r) == Gcd(r, alice_ek.n) = 1

Extracted == pc \in {"alpha", "done"}

SharesAddUp ==
  /\ resAlpha.ok
  /\ (resAlpha.alpha + resB.beta) % q = (a * b) % q

C2_OkIffProofsAndEquation ==
  Extracted =>
    LET plaintext == Decrypt(alice_dk, m_b_rx.c)
        alpha     == plaintext % q
        equation  == (m_b_rx.b_proof.pk * a_in + m_b_rx.beta_tag_proof.pk) % q
                       = (Generator * alpha) % q
    IN  IF m_b_rx.b_proof.valid /\ m_b_rx.beta_tag_proof.valid /\ equation
        THEN resAlpha = [ok |-> TRUE, alpha |-> alpha, share |-> plaintext]
        ELSE resAlpha = InvalidKey

C2_Witness ==
  /\ pc = "alpha"
  /\ m_b_rx.b_proof.valid /\ m_b_rx.beta_tag_proof.valid
  /\ m_b_rx.c # resB.m_b.c
  /\ resAlpha = InvalidKey

\* Message B reached A with b_proof replaced by a valid proof for a scalar
\* other than b, the ciphertext and beta_tag_proof as built
BProofReplaced ==
  /\ m_b_rx.c = resB.m_b.c
  /\ m_b_rx.beta_tag_proof = resB.m_b.beta_tag_proof
  /\ m_b_rx.b_proof.valid
  /\ m_b_rx.b_proof.pk # PointMul(Generator, b)

\* C3 as claimed: after a valid exchange for a and b, a Message B whose
\* b_proof is replaced by a valid proof for b' # b is rejected with
\* InvalidKey, whatever scalar the extraction is given.
C3_ReplacedBProofRejected ==
  Extracted /\ HonestAB /\ BProofReplaced => resAlpha = InvalidKey

\* C3 as amended: with invertible randomness and a*b + beta_tag < N, the
\* extraction given scalar a' rejects the replaced proof for b' with
\* InvalidKey exactly when a'*b' # a*b (mod q), so always for a' = a # 0;
\* it accepts when a'*b' = a*b (mod q), as for a' = a = 0.
C3_ReplacedBProofRejectedUnlessProductsAgree ==
  Extracted /\ HonestAB /\ BProofReplaced /\ Unit(r_a) /\ Unit(r_b)
    /\ a * b + beta_tag < alice_ek.n
  => /\ resAlpha.ok <=> (a_in * m_b_rx.b_proof.pk) % q = (a * b) % q
     /\ ~resAlpha.ok => resAlpha = InvalidKey
     /\ a_in = a /\ a # 0 => resAlpha = InvalidKey

C3_Witness ==
  /\ pc = "alpha" /\ HonestAB /\ BProofReplaced /\ Unit(r_a) /\ Unit(r_b)
  /\ a * b + beta_tag < alice_ek.n
  /\ a_in = a /\ a # 0
  /\ resAlpha = InvalidKey

\* C4: when the number of range proofs differs from the number of
\* statements, Message-B construction fails with InvalidKey having invoked
\* no primitive at all: no sampling, verification, encryption, homomorphic
\* operation or proof generation.
C4_LengthMismatchTouchesNothing ==
  pc = "b_failed" /\ Len(m_a_rx.range_proofs) # Len(stmtsB)
  => resB = InvalidKey /\ ops = ZeroOps

\* the pairs verified in the order given, stopping at the first that fails
RECURSIVE AllVerifyInOrder(_, _)
AllVerifyInOrder(order, i) ==
  IF i > Len(order) THEN TRUE
  ELSE /\ AliceProofVerify(m_a_rx.range_proofs[order[i]], m_a_rx.c, alice_ek,
                           stmtsB[order[i]])
       /\ AllVerifyInOrder(order, i + 1)

Orders(n) ==
  {o \in [1 .. n -> 1 .. n] : \A i, j \in 1 .. n : o[i] = o[j] => i = j}

\* C5: Message-B construction returns Ok exactly when the proof count equals
\* the statement count and every proof i verifies against (Message A's
\* ciphertext, A's key, statement i); otherwise it returns InvalidKey with no
\* Message B and no beta; the outcome is that of the conjunction evaluated
\* in any order of the pairs.
C5_OkIffAllPairsVerify ==
  pc \in {"b_sent", "b_failed"} =>
    LET n == Len(m_a_rx.range_proofs)
        all == /\ n = Len(stmtsB)
               /\ \A i \in 1 .. n :
                    AliceProofVerify(m_a_rx.range_proofs[i], m_a_rx.c, alice_ek,
                                     stmtsB[i])
    IN  /\ resB.ok <=> all
        /\ ~resB.ok => resB = InvalidKey /\ pc = "b_failed"
        /\ resB.ok => pc = "b_sent"
        /\ n = Len(stmtsB) =>
             \A o \in Orders(n) : AllVerifyInOrder(o, 1) <=> resB.ok

C5_Witness ==
  /\ pc = "b_failed"
  /\ Len(m_a_rx.range_proofs) = Len(stmtsB)
  /\ Len(stmtsB) >= 2
  /\ AliceProofVerify(m_a_rx.range_proofs[1], m_a_rx.c, alice_ek, stmtsB[1])
  /\ ~AliceProofVerify(m_a_rx.range_proofs[Len(stmtsB)], m_a_rx.c, alice_ek,
                       stmtsB[Len(stmtsB)])

\* C6: Message-A construction always yields a Message A, verifies nothing,
\* and returns as many range proofs as statements, the i-th generated for
\* the i-th statement over the message's ciphertext, the plaintext a and the
\* randomness the ciphertext was encrypted with (the one MessageA::a returns).
C6_OneProofPerStatementInOrder ==
  pc # "start" =>
    /\ m_a.c = Encrypt(alice_ek, a, r_a)
    /\ Len(m_a.range_proofs) = Len(stmts)
    /\ \A i \in 1 .. Len(stmts) :
         m_a.range_proofs[i] = [a |-> a, c |-> m_a.c, n |-> alice_ek.n,
                                st |-> stmts[i], r |-> r_a]
    /\ pc = "a_sent" => /\ ops.range_verify = 0 /\ ops.dlog_verify = 0
                        /\ ops.range_prove = Len(stmts)

C6_Witness ==
  /\ pc = "a_sent" /\ Len(stmts) >= 2 /\ ops.sample = 1
  /\ m_a.range_proofs[1].st # m_a.range_proofs[2].st

\* C8: given the same Message B and scalar, with PartyPrivate decrypting as
\* the raw key does, verify_proofs_get_alpha_gg18 returns Ok exactly when
\* verify_proofs_get_alpha does, with the same alpha, and both return
\* InvalidKey otherwise.
C8_ExtractorsAgree ==
  pc = "done" =>
    /\ resAlpha18.ok <=> resAlpha.ok
    /\ resAlpha.ok => resAlpha18.alpha = resAlpha.alpha
    /\ ~resAlpha.ok => resAlpha = InvalidKey /\ resAlpha18 = InvalidKey

C8_Witness ==
  /\ pc = "done" /\ resAlpha18.ok /\ m_b_rx # resB.m_b

C10_BetaNegatesReducedBlinding ==
  pc = "b_sent" =>
    /\ resB.beta = (q - (beta_tag % q)) % q
    /\ resB.m_b.beta_tag_proof = [pk |-> (Generator * (beta_tag % q)) % q,
                                  valid |-> TRUE]
    /\ (resB.beta + resB.m_b.beta_tag_proof.pk) % q = 0
    /\ resB.m_b.b_proof = [pk |-> (Generator * b) % q, valid |-> TRUE]

C10_Witness ==
  /\ pc = "b_sent" /\ beta_tag >= q /\ beta_tag % q # 0 /\ resB.beta # 0
  /\ b # 0

====
